---- MODULE Spec2Model ----
(***************************************************************************)
(* Custom-Chatbot-Builder: the FAQ parser, the training-set builder, the   *)
(* exporter, the response post-processing and the ChatbotInterface session *)
(* (train_chatbot / chat) as state machines.                               *)
(*                                                                         *)
(* A Python str is modelled as a sequence of one-character strings, so     *)
(* that split / replace / strip / "in" are computed as Python computes     *)
(* them.                                                                   *)
(***************************************************************************)
EXTENDS Integers, Sequences, FiniteSets, TLC

VARIABLES
    raw_text,      \* parse_faq_input: the text handed to it
    qa_pairs,      \* parse_faq_input: the list it returned
    parsed,        \* parse_faq_input has returned
    custom_in,     \* prepare_training_data: the caller's list as passed
    custom_faqs,   \* prepare_training_data: the caller's list object
    industry,      \* prepare_training_data: the industry argument
    dataset,       \* prepare_training_data: the examples it returned
    prepared,      \* prepare_training_data has returned
    decoded,       \* generate_response: the text tokenizer.decode returned
    response,      \* generate_response: the cleaned response
    cleaned,       \* generate_response has cleaned the decoded text
    files,         \* the data directory: path -> content of the file there
    export_ret,    \* export_chatbot_data: what the last call returned or raised
    latest,        \* per path, the arguments of the last export written there
                   \* (recent: it is the path the last returning call wrote)
    model,         \* ChatbotTrainer.model: the weights held in memory
    loaded_model_path, \* ChatbotInterface.loaded_model_path ("unset": no such attribute)
    disk,          \* the models directory: path -> weights of the checkpoint there
    last,          \* the last request: its arguments, what it did, what it returned
    last_ok_load,  \* the path of the most recent load_model call that returned
    trainings,     \* the number of train_chatbot requests made
    failed_before  \* some earlier request ended in its except handler

parserVars  == <<raw_text, qa_pairs, parsed>>
builderVars == <<custom_in, custom_faqs, industry, dataset, prepared>>
cleanVars   == <<decoded, response, cleaned>>
exportVars  == <<files, export_ret, latest>>
sessionVars == <<model, loaded_model_path, disk, last, last_ok_load, trainings,
                 failed_before>>

vars == <<parserVars, builderVars, cleanVars, exportVars, sessionVars>>

----------------------------------------------------------------------------
(* Python str primitives *)

\* the characters str.strip() removes (those that occur in the modelled texts)
Whitespace == {" ", "\n", "\t"}

\* s[i:] for a 1-based i
Drop(s, i) == SubSeq(s, i, Len(s))

\* s.startswith(pat, i-1)
MatchAt(s, pat, i) ==
    /\ i >= 1
    /\ i + Len(pat) - 1 <= Len(s)
    /\ SubSeq(s, i, i + Len(pat) - 1) = pat

\* pat in s
Contains(s, pat) == \E i \in 1..Len(s) : MatchAt(s, pat, i)

\* s.find(pat): 1-based index of the first occurrence, 0 when there is none
Find(s, pat) ==
    IF Contains(s, pat)
    THEN CHOOSE i \in 1..Len(s) :
            /\ MatchAt(s, pat, i)
            /\ \A j \in 1..(i - 1) : ~MatchAt(s, pat, j)
    ELSE 0

\* s.split(pat): scanned left to right, occurrences taken without overlap
RECURSIVE Split(_, _)
Split(s, pat) ==
    IF Find(s, pat) = 0
    THEN <<s>>
    ELSE <<SubSeq(s, 1, Find(s, pat) - 1)>>
            \o Split(Drop(s, Find(s, pat) + Len(pat)), pat)

\* s.replace(pat, ""): every occurrence removed, left to right
RECURSIVE Remove(_, _)
Remove(s, pat) ==
    IF Find(s, pat) = 0
    THEN s
    ELSE SubSeq(s, 1, Find(s, pat) - 1)
            \o Remove(Drop(s, Find(s, pat) + Len(pat)), pat)

RECURSIVE LStrip(_)
LStrip(s) ==
    IF s # <<>> /\ Head(s) \in Whitespace THEN LStrip(Tail(s)) ELSE s

RECURSIVE RStrip(_)
RStrip(s) ==
    IF s # <<>> /\ s[Len(s)] \in Whitespace
    THEN RStrip(SubSeq(s, 1, Len(s) - 1))
    ELSE s

\* s.strip()
Strip(s) == LStrip(RStrip(s))

----------------------------------------------------------------------------
(* DataProcessor.parse_faq_input *)

QMark == <<"Q", ":">>
AMark == <<"A", ":">>
NL    == <<"\n">>

\* (variant of parse_line that skips a pair with an empty question or answer)
parse_line_skip_empty(line) ==
    IF /\ Contains(line, QMark) /\ Contains(line, AMark)
       /\ Strip(Remove(Split(line, AMark)[1], QMark)) # <<>>
       /\ Strip(Split(line, AMark)[2]) # <<>>
    THEN <<<<Strip(Remove(Split(line, AMark)[1], QMark)),
             Strip(Split(line, AMark)[2])>>>>
    ELSE <<>>

\* the body of the for loop: the pair a line contributes, if any
parse_line(line) ==
    IF Contains(line, QMark) /\ Contains(line, AMark)
    THEN <<<<Strip(Remove(Split(line, AMark)[1], QMark)),
             Strip(Split(line, AMark)[2])>>>>
    ELSE <<>>

RECURSIVE parse_lines(_)
parse_lines(lines) ==
    IF lines = <<>>
    THEN <<>>
    ELSE parse_line(Head(lines)) \o parse_lines(Tail(lines))

parse_faq_input(text) == parse_lines(Split(Strip(text), NL))

----------------------------------------------------------------------------
(* config.SAMPLE_INDUSTRIES: a dict keeps insertion order, so each         *)
(* industry's FAQs are the sequence of its (question, answer) items.  A    *)
(* catalog string is kept whole, as a text of one unit.                    *)

SAMPLE_INDUSTRIES ==
    [retail |->
        << << <<"What are your store hours?">>,
              <<"Our store is open Monday through Saturday from 9 AM to 6 PM.">> >>,
           << <<"Do you offer returns?">>,
              <<"Yes, we offer returns within 30 days of purchase with original receipt.">> >> >>,
     restaurant |->
        << << <<"Do you take reservations?">>,
              <<"Yes, we accept reservations through our website or by phone.">> >>,
           << <<"Are you open for lunch?">>,
              <<"Yes, we serve lunch from 11 AM to 3 PM daily.">> >> >>,
     fitness |->
        << << <<"What are your membership options?">>,
              <<"We offer monthly and annual memberships with various packages.">> >>,
           << <<"Do you offer personal training?">>,
              <<"Yes, we have certified personal trainers available for one-on-one sessions.">> >> >>]

\* DataProcessor.sep_token
sep_token == <<"#", "#", "#">>

----------------------------------------------------------------------------
(* DataProcessor.prepare_training_data *)

\* all_qa_pairs.extend(...): the list object after the call
extend(list, items) == list \o items

\* (variant of copy_and_extend without the copy: all_qa_pairs is the caller's
\* list object, and extending it extends the caller's list)
extend_in_place(list, items) == <<extend(list, items), extend(list, items)>>

\* custom_faqs.copy(): a new list object; extending it leaves the caller's
\* list as it was.  The pair returned is <<the new list, the caller's list>>.
copy_and_extend(list, items) == <<extend(list, items), list>>

\* f"{question} {self.sep_token} {answer}"
format_example(pair) == [text |-> pair[1] \o <<" ">> \o sep_token \o <<" ">> \o pair[2]]

\* the value returned (dataset) and the caller's list after the call
prepare_training_data(business_data, faqs, ind) ==
    LET lists == IF ind \in DOMAIN SAMPLE_INDUSTRIES
                 THEN copy_and_extend(faqs, SAMPLE_INDUSTRIES[ind])
                 ELSE copy_and_extend(faqs, <<>>)
        all_qa_pairs == lists[1]
    IN  [dataset     |-> [i \in 1..Len(all_qa_pairs) |-> format_example(all_qa_pairs[i])],
         custom_faqs |-> lists[2]]

----------------------------------------------------------------------------
(* ChatbotTrainer.generate_response, lines 146-151: cleaning the decoded   *)
(* text                                                                    *)

Last(s) == s[Len(s)]

\* (variant of clean_response that takes the piece after the first separator)
clean_response_first(text) ==
    Strip(Split(text, <<"#", "#", "#">>)[IF Contains(text, <<"#", "#", "#">>) THEN 2 ELSE 1])

\* response.split("###")[-1].strip()
clean_response(text) == Strip(Last(Split(text, <<"#", "#", "#">>)))

----------------------------------------------------------------------------
(* DataProcessor.export_chatbot_data.  A file's content is the sequence of *)
(* JSON tokens json.dump writes: <<"p", c>> a punctuation mark, <<"k", s>> *)
(* an object key, <<"v", s>> a string value.                               *)

\* DATA_DIR / "chatbot_export.json"
DefaultExportFile == "data/chatbot_export.json"

\* no file at the path
Absent == <<<<"absent">>>>

P(c) == <<"p", c>>
K(s) == <<"k", s>>
V(s) == <<"v", s>>

\* {"question": q, "answer": a} for q, a in qa_pairs
export_pairs(pairs) ==
    [i \in 1..Len(pairs) |-> [question |-> pairs[i][1], answer |-> pairs[i][2]]]

\* export_data
export_data(business_data, pairs) ==
    [business_info |-> business_data, qa_pairs |-> export_pairs(pairs)]

RECURSIVE dump_pairs(_)
dump_pairs(objs) ==
    IF objs = <<>>
    THEN <<>>
    ELSE <<P("{"), K("question"), V(Head(objs).question),
           K("answer"), V(Head(objs).answer), P("}")>> \o dump_pairs(Tail(objs))

\* json.dump(export_data, f, indent=2): the tokens written
json_dump(data) ==
    <<P("{"), K("business_info"), P("{"),
      K("name"), V(data.business_info.name),
      K("industry"), V(data.business_info.industry), P("}"),
      K("qa_pairs"), P("[")>>
    \o dump_pairs(data.qa_pairs)
    \o <<P("]"), P("}")>>

\* (variant of write_file that opens the file in append mode)
write_file_append(old, tokens) == IF old = Absent THEN tokens ELSE old \o tokens

\* open(output_file, "w") and the write: the file is truncated, then written
write_file(old, tokens) == tokens

\* the call: the returned path and the data directory after it
export_chatbot_data(fs, business_data, pairs, output_file) ==
    LET path == IF output_file = "None" THEN DefaultExportFile ELSE output_file
    IN  [ret   |-> path,
         files |-> [fs EXCEPT ![path] =
                        write_file(fs[path], json_dump(export_data(business_data, pairs)))]]

\* Reading a file back (json.load): whether the tokens are one document of
\* the exported shape, and the value they denote.
Is(tok, kind, s) == tok[1] = kind /\ tok[2] = s

PairCount(content) == (Len(content) - 12) \div 6

JsonValid(content) ==
    /\ Len(content) >= 12
    /\ (Len(content) - 12) % 6 = 0
    /\ Is(content[1], "p", "{") /\ Is(content[2], "k", "business_info")
    /\ Is(content[3], "p", "{") /\ Is(content[4], "k", "name")
    /\ content[5][1] = "v"     /\ Is(content[6], "k", "industry")
    /\ content[7][1] = "v"     /\ Is(content[8], "p", "}")
    /\ Is(content[9], "k", "qa_pairs") /\ Is(content[10], "p", "[")
    /\ \A i \in 1..PairCount(content) :
          LET b == 10 + 6 * (i - 1)
          IN  /\ Is(content[b + 1], "p", "{") /\ Is(content[b + 2], "k", "question")
              /\ content[b + 3][1] = "v"     /\ Is(content[b + 4], "k", "answer")
              /\ content[b + 5][1] = "v"     /\ Is(content[b + 6], "p", "}")
    /\ Is(content[Len(content) - 1], "p", "]")
    /\ Is(content[Len(content)], "p", "}")

JsonValue(content) ==
    [business_info |-> [name |-> content[5][2], industry |-> content[7][2]],
     qa_pairs |-> [i \in 1..PairCount(content) |->
                      [question |-> content[10 + 6 * (i - 1) + 3][2],
                       answer   |-> content[10 + 6 * (i - 1) + 5][2]]]]

----------------------------------------------------------------------------
(* ChatbotTrainer: the model in memory and the checkpoints on disk.        *)
(* Weights are named by their history: <<>> is the pretrained base model,  *)
(* "run" a completed trainer.train(), "partial" one that raised part-way.  *)

\* config.MODEL_CONFIG (the device is the one of a machine without MPS)
MODEL_CONFIG == [base_model |-> "distilgpt2", device |-> "cpu"]

\* MODELS_DIR / "fine_tuned"
FineTunedDir == "models/fine_tuned"

\* no checkpoint at the path
NoCheckpoint == <<"missing">>

\* an exception raised by a step, and a step's normal completion
Raised(step, msg) == [raised |-> TRUE, step |-> step, msg |-> msg]
NotRaised == [raised |-> FALSE, step |-> "none", msg |-> ""]

\* ChatbotTrainer.load_model: from_pretrained assigns self.model only when it
\* returns; a failure of .to(device) comes after the assignment.
load_model(mem, dsk, path, load_fail) ==
    IF dsk[path] = NoCheckpoint \/ load_fail = "from_pretrained"
    THEN [exc |-> Raised("load", "cannot load checkpoint"), model |-> mem]
    ELSE IF load_fail = "to_device"
    THEN [exc |-> Raised("load", "cannot move model to device"), model |-> dsk[path]]
    ELSE [exc |-> NotRaised, model |-> dsk[path]]

\* ChatbotTrainer.generate_response: encode, then the arguments of
\* model.generate are read from MODEL_CONFIG, then generate, decode, clean.
generate_response(question, fail, text) ==
    IF fail = "encode"
    THEN [exc |-> Raised("generate", "cannot encode"), response |-> <<>>,
          delegate_called |-> FALSE]
    ELSE IF "max_length" \notin DOMAIN MODEL_CONFIG
    THEN [exc |-> Raised("generate", "'max_length'"), response |-> <<>>,
          delegate_called |-> FALSE]
    ELSE IF "temperature" \notin DOMAIN MODEL_CONFIG
    THEN [exc |-> Raised("generate", "'temperature'"), response |-> <<>>,
          delegate_called |-> FALSE]
    ELSE IF "top_p" \notin DOMAIN MODEL_CONFIG
    THEN [exc |-> Raised("generate", "'top_p'"), response |-> <<>>,
          delegate_called |-> FALSE]
    ELSE IF fail = "generate"
    THEN [exc |-> Raised("generate", "generation failed"), response |-> <<>>,
          delegate_called |-> TRUE]
    ELSE [exc |-> NotRaised, response |-> clean_response(text),
          delegate_called |-> TRUE]

\* ChatbotTrainer.train: the Trainer updates self.model in place, then
\* save_model writes it to the output directory.
train(mem, dsk, train_fail) ==
    IF train_fail = "trainer_init"
    THEN [exc |-> Raised("train", "cannot set up training"), model |-> mem, disk |-> dsk]
    ELSE IF train_fail = "train_loop"
    THEN [exc |-> Raised("train", "training failed"),
          model |-> Append(mem, "partial"), disk |-> dsk]
    ELSE IF train_fail = "save_model"
    THEN [exc |-> Raised("train", "cannot save model"),
          model |-> Append(mem, "run"), disk |-> dsk]
    ELSE [exc |-> NotRaised, model |-> Append(mem, "run"),
          disk |-> [dsk EXCEPT ![FineTunedDir] = Append(mem, "run")]]

----------------------------------------------------------------------------
(* ChatbotInterface *)

\* (variant of chat_except that re-raises, as the trainer's handlers do)
chat_except_reraise(msg, history) ==
    [ret |-> <<"Error: ", msg>>, history |-> history, escaped |-> TRUE]

\* chat, lines 126-128: the handler returns the message and the history
chat_except(msg, history) ==
    [ret |-> <<"Error: ", msg>>, history |-> history, escaped |-> FALSE]

\* (variant of chat_validate that tests the question first)
chat_validate_question_first(question, model_path) ==
    IF question = "" THEN <<"Please ask a question!">>
    ELSE IF model_path = "" THEN <<"Please train the chatbot first!">>
    ELSE <<>>

\* chat, lines 110-114: the message returned when a precondition fails
chat_validate(question, model_path) ==
    IF model_path = "" THEN <<"Please train the chatbot first!">>
    ELSE IF question = "" THEN <<"Please ask a question!">>
    ELSE <<>>

\* (variant of chat_load that records the path before load_model returns)
chat_load_record_first(mem, loaded, dsk, model_path, load_fail) ==
    IF loaded = "unset" \/ loaded # model_path
    THEN [called |-> TRUE,
          exc    |-> load_model(mem, dsk, model_path, load_fail).exc,
          model  |-> load_model(mem, dsk, model_path, load_fail).model,
          loaded |-> model_path]
    ELSE [called |-> FALSE, exc |-> NotRaised, model |-> mem, loaded |-> loaded]

\* chat, lines 117-119: load the checkpoint if needed, then record its path
chat_load(mem, loaded, dsk, model_path, load_fail) ==
    IF loaded = "unset" \/ loaded # model_path
    THEN LET r == load_model(mem, dsk, model_path, load_fail)
         IN  [called |-> TRUE, exc |-> r.exc, model |-> r.model,
              loaded |-> IF r.exc.raised THEN loaded ELSE model_path]
    ELSE [called |-> FALSE, exc |-> NotRaised, model |-> mem, loaded |-> loaded]

\* ChatbotInterface.chat
chat(mem, loaded, dsk, question, model_path, history, fail, text) ==
    LET idle == [model |-> mem, loaded |-> loaded, load_called |-> FALSE,
                 load_returned |-> FALSE, generate_called |-> FALSE,
                 delegate_called |-> FALSE, raised_in |-> "none"]
    IN
    IF chat_validate(question, model_path) # <<>>
    THEN idle @@ [ret |-> chat_validate(question, model_path),
                  history |-> history, escaped |-> FALSE]
    ELSE
    LET l == chat_load(mem, loaded, dsk, model_path, fail)
        afterLoad == [model |-> l.model, loaded |-> l.loaded, load_called |-> l.called,
                      load_returned |-> l.called /\ ~l.exc.raised]
    IN
    IF l.exc.raised
    THEN afterLoad @@ [generate_called |-> FALSE, delegate_called |-> FALSE,
                       raised_in |-> "load"]
                   @@ chat_except(l.exc.msg, history)
    ELSE
    LET g == generate_response(question, fail, text)
    IN
    IF g.exc.raised
    THEN afterLoad @@ [generate_called |-> TRUE, delegate_called |-> g.delegate_called,
                       raised_in |-> "generate"]
                   @@ chat_except(g.exc.msg, history)
    ELSE afterLoad @@ [generate_called |-> TRUE, delegate_called |-> TRUE,
                       raised_in |-> "none",
                       ret |-> g.response,
                       history |-> Append(history, <<question, g.response>>),
                       escaped |-> FALSE]

\* (variant of recorded_after_train that records the checkpoint a completed
\* training run saved as the loaded one)
recorded_after_train_saved(loaded, ret_path) ==
    IF ret_path # "" THEN ret_path ELSE loaded

\* train_chatbot and ChatbotTrainer.train: neither assigns
\* self.loaded_model_path, on any path through them; the attribute is what it
\* was, whatever path the request returns
recorded_after_train(loaded, ret_path) == loaded

\* train_chatbot, lines 87-90: the handler returns the message and no path
train_except(msg) == [ret |-> <<"Error: ", msg>>, ret_path |-> "", escaped |-> FALSE]

\* ChatbotInterface.train_chatbot
train_chatbot(mem, dsk, fs, business_name, ind, faq_text, fail_at) ==
    LET business_data == [name |-> business_name, industry |-> ind]
        pairs    == parse_faq_input(faq_text)
        prep     == prepare_training_data(business_data, pairs, ind)
        t        == train(mem, dsk, fail_at)
        e        == export_chatbot_data(fs, business_data, prep.custom_faqs, "None")
        untouched == [model |-> mem, disk |-> dsk, files |-> fs]
    IN
    IF fail_at = "prepare"
    THEN untouched @@ [raised_in |-> "prepare"] @@ train_except("cannot build dataset")
    ELSE IF fail_at = "tokenize"
    THEN untouched @@ [raised_in |-> "tokenize"] @@ train_except("cannot tokenize")
    ELSE IF t.exc.raised
    THEN [model |-> t.model, disk |-> t.disk, files |-> fs, raised_in |-> "train"]
            @@ train_except(t.exc.msg)
    ELSE IF fail_at = "export"
    THEN [model |-> t.model, disk |-> t.disk, files |-> fs, raised_in |-> "export"]
            @@ train_except("cannot write export file")
    ELSE [model |-> t.model, disk |-> t.disk, files |-> e.files, raised_in |-> "none",
          ret |-> <<"Training completed!", FineTunedDir, e.ret>>,
          ret_path |-> FineTunedDir, escaped |-> FALSE]

----------------------------------------------------------------------------
(* Idle values of each component's variables *)

CheckpointPaths == {FineTunedDir, "models/other"}

\* no request made yet
NoRequest ==
    [op |-> "none", question |-> "", model_path |-> "", history_in |-> <<>>,
     fail |-> "none", prev_model |-> <<>>, prev_loaded |-> "unset",
     prev_ok_load |-> "unset",
     ret |-> <<>>, history |-> <<>>, ret_path |-> "",
     load_called |-> FALSE, load_returned |-> FALSE, generate_called |-> FALSE,
     delegate_called |-> FALSE, raised_in |-> "none", escaped |-> FALSE]

\* ChatbotInterface.__init__: the base model, no loaded_model_path attribute
SessionIdle ==
    /\ model = <<>>
    /\ loaded_model_path = "unset"
    /\ disk = [p \in CheckpointPaths |->
                  IF p = "models/other" THEN <<"other">> ELSE NoCheckpoint]
    /\ last = NoRequest
    /\ last_ok_load = "unset"
    /\ trainings = 0
    /\ failed_before = FALSE

ExportPaths == {DefaultExportFile, "data/other.json"}

\* nothing exported to a path yet
NoExport == [written |-> FALSE, recent |-> FALSE,
             business_data |-> [name |-> "", industry |-> ""], qa_pairs |-> <<>>]

ExportIdle ==
    /\ files = [p \in ExportPaths |-> Absent]
    /\ export_ret = "none"
    /\ latest = [p \in ExportPaths |-> NoExport]

ParserIdle ==
    /\ raw_text = <<>>
    /\ qa_pairs = <<>>
    /\ parsed = FALSE

BuilderIdle ==
    /\ custom_in = <<>>
    /\ custom_faqs = <<>>
    /\ industry = "other"
    /\ dataset = <<>>
    /\ prepared = FALSE

CleanIdle ==
    /\ decoded = <<>>
    /\ response = <<>>
    /\ cleaned = FALSE

----------------------------------------------------------------------------
(* SpecParse: parse_faq_input on every raw FAQ text that concatenates at   *)
(* most MaxPieces pieces.                                                  *)

MaxPieces == 7

Pieces == {QMark, AMark, <<" ", "x">>, NL}

RECURSIVE Concat(_)
Concat(ps) == IF ps = <<>> THEN <<>> ELSE Head(ps) \o Concat(Tail(ps))

PieceSeqs == UNION {[1..n -> Pieces] : n \in 0..MaxPieces}

InitParse ==
    /\ raw_text \in {Concat(ps) : ps \in PieceSeqs}
    /\ qa_pairs = <<>>
    /\ parsed = FALSE
    /\ BuilderIdle
    /\ CleanIdle
    /\ ExportIdle
    /\ SessionIdle

ParseFaq ==
    /\ ~parsed
    /\ qa_pairs' = parse_faq_input(raw_text)
    /\ parsed' = TRUE
    /\ UNCHANGED <<raw_text, builderVars, cleanVars, exportVars, sessionVars>>

NextParse == ParseFaq

SpecParse == InitParse /\ [][NextParse]_vars

\* the lines of the input text, and those that hold both markers
InputLines == Split(raw_text, NL)

HasBothMarkers(line) ==
    /\ \E i \in 1..Len(line) : MatchAt(line, QMark, i)
    /\ \E i \in 1..Len(line) : MatchAt(line, AMark, i)

MarkedLines == SelectSeq(InputLines, HasBothMarkers)

\* the text of a line before its first A: and after it
BeforeFirstA(line) == SubSeq(line, 1, Find(line, AMark) - 1)
AfterFirstA(line)  == Drop(line, Find(line, AMark) + Len(AMark))

\* C5: parse_faq_input returns exactly one pair per input line that holds
\* both Q: and A:, in the order of those lines (the i-th pair is the one
\* read from the i-th such line); other lines contribute nothing.
C5_OnePairPerMarkedLine ==
    parsed =>
        /\ Len(qa_pairs) = Len(MarkedLines)
        /\ \A i \in 1..Len(MarkedLines) :
              /\ Len(qa_pairs[i]) = 2
              /\ qa_pairs[i][1] = Strip(Remove(BeforeFirstA(MarkedLines[i]), QMark))

\* C5 witness: a text with two marked lines whose pairs differ and a line
\* that lacks a marker has been parsed.
C5_Witness ==
    /\ parsed
    /\ Len(MarkedLines) = 2
    /\ Len(InputLines) = 3
    /\ qa_pairs[1][1] # qa_pairs[2][1]

\* C6: every pair parse_faq_input returns has a non-empty question and a
\* non-empty answer.
C6_PairsNonEmpty ==
    parsed =>
        \A i \in 1..Len(qa_pairs) :
            qa_pairs[i][1] # <<>> /\ qa_pairs[i][2] # <<>>

\* C10: for every line with both markers the question is the text before
\* the first A: with Q: removed, and the answer is the whole rest of the
\* line after that first A:, both trimmed.
C10_SplitAtFirstAOnly ==
    parsed =>
        /\ Len(qa_pairs) = Len(MarkedLines)
        /\ \A i \in 1..Len(MarkedLines) :
              qa_pairs[i] = << Strip(Remove(BeforeFirstA(MarkedLines[i]), QMark)),
                               Strip(AfterFirstA(MarkedLines[i])) >>

----------------------------------------------------------------------------
(* SpecPrepare: prepare_training_data on every list of at most MaxCustom   *)
(* custom pairs and every industry of Industries.                          *)

MaxCustom == 3

\* two custom pairs with the same question, and a copy of a catalog pair
CustomPairPool ==
    { << <<"h", "i">>, <<"y", "o">> >>,
      << <<"h", "i">>, <<"n", "o">> >>,
      SAMPLE_INDUSTRIES.retail[1] }

Industries == {"retail", "restaurant", "fitness", "other"}

InitPrepare ==
    /\ custom_in \in UNION {[1..n -> CustomPairPool] : n \in 0..MaxCustom}
    /\ custom_faqs = custom_in
    /\ industry \in Industries
    /\ dataset = <<>>
    /\ prepared = FALSE
    /\ ParserIdle
    /\ CleanIdle
    /\ ExportIdle
    /\ SessionIdle

PrepareTrainingData ==
    /\ ~prepared
    /\ LET r == prepare_training_data([name |-> "b", industry |-> industry],
                                      custom_faqs, industry)
       IN  /\ dataset' = r.dataset
           /\ custom_faqs' = r.custom_faqs
    /\ prepared' = TRUE
    /\ UNCHANGED <<custom_in, industry, parserVars, cleanVars, exportVars, sessionVars>>

NextPrepare == PrepareTrainingData

SpecPrepare == InitPrepare /\ [][NextPrepare]_vars

\* the catalog pairs the claim expects for the industry
ExpectedCatalog ==
    IF industry \in {"retail", "restaurant", "fitness"}
    THEN SAMPLE_INDUSTRIES[industry]
    ELSE <<>>

ExpectedText(pair) == pair[1] \o <<" ", "#", "#", "#", " ">> \o pair[2]

\* C7: prepare_training_data returns one example per pair, with text =
\* question + " ### " + answer, the pairs being the custom pairs in caller
\* order followed by the industry's catalog pairs in catalog order when the
\* industry is a catalog key (and the custom pairs alone otherwise); the
\* caller's list is left as it was passed.
C7_CustomThenCatalog ==
    prepared =>
        /\ Len(dataset) = Len(custom_in) + Len(ExpectedCatalog)
        /\ \A i \in 1..Len(custom_in) :
              dataset[i].text = ExpectedText(custom_in[i])
        /\ \A j \in 1..Len(ExpectedCatalog) :
              dataset[Len(custom_in) + j].text = ExpectedText(ExpectedCatalog[j])
        /\ custom_faqs = custom_in

\* C7 witness: a call with two custom pairs, one of them a copy of a retail
\* catalog pair, and the retail industry has returned its four examples.
C7_Witness ==
    /\ prepared
    /\ industry = "retail"
    /\ Len(custom_in) = 2
    /\ custom_in[2] = SAMPLE_INDUSTRIES.retail[1]
    /\ Len(dataset) = 4
    /\ dataset[2] = dataset[3]

----------------------------------------------------------------------------
(* SpecClean: the cleaning of generate_response on every decoded text that *)
(* concatenates at most MaxDecoded pieces of DecodedPieces.                *)

MaxDecoded == 5

DecodedPieces == {<<"#", "#", "#">>, <<"#">>, <<" ">>, <<"x">>, <<"\n">>}

InitClean ==
    /\ decoded \in {Concat(ps) : ps \in UNION {[1..n -> DecodedPieces] : n \in 0..MaxDecoded}}
    /\ response = <<>>
    /\ cleaned = FALSE
    /\ ParserIdle
    /\ BuilderIdle
    /\ ExportIdle
    /\ SessionIdle

CleanResponse ==
    /\ ~cleaned
    /\ response' = clean_response(decoded)
    /\ cleaned' = TRUE
    /\ UNCHANGED <<decoded, parserVars, builderVars, exportVars, sessionVars>>

NextClean == CleanResponse

SpecClean == InitClean /\ [][NextClean]_vars

Separator == <<"#", "#", "#">>

HasSeparator == \E i \in 1..Len(decoded) : MatchAt(decoded, Separator, i)

\* the start of the last occurrence of the separator, wherever it lies
LastOccurrence ==
    CHOOSE i \in 1..Len(decoded) :
        /\ MatchAt(decoded, Separator, i)
        /\ \A j \in (i + 1)..Len(decoded) : ~MatchAt(decoded, Separator, j)

\* the starts of the occurrences a left-to-right scan takes: an occurrence
\* is taken when it begins at or after the end of the one taken before it
RECURSIVE ScanFrom(_)
ScanFrom(i) ==
    IF i > Len(decoded) THEN {}
    ELSE IF MatchAt(decoded, Separator, i)
         THEN {i} \cup ScanFrom(i + Len(Separator))
         ELSE ScanFrom(i + 1)

LastScanned == CHOOSE i \in ScanFrom(1) : \A j \in ScanFrom(1) : j <= i

\* no two occurrences of the separator overlap
NoOverlap == ~Contains(decoded, <<"#", "#", "#", "#">>)

\* C8 (as stated): with a separator the response is the text after the last
\* occurrence of the separator, trimmed; without one it is the whole decoded
\* text, trimmed.
C8_AfterLastOccurrence ==
    cleaned =>
        response = IF HasSeparator
                   THEN Strip(Drop(decoded, LastOccurrence + Len(Separator)))
                   ELSE Strip(decoded)

\* C8 (amended): with a separator the response is the trimmed text after the
\* last of the occurrences a left-to-right scan without overlap takes, which
\* is the last occurrence whenever no two occurrences overlap; without a
\* separator it is the whole decoded text, trimmed.
C8_AfterLastScannedOccurrence ==
    cleaned =>
        /\ HasSeparator =>
              response = Strip(Drop(decoded, LastScanned + Len(Separator)))
        /\ HasSeparator /\ NoOverlap =>
              response = Strip(Drop(decoded, LastOccurrence + Len(Separator)))
        /\ ~HasSeparator => response = Strip(decoded)

\* C8 witness: a text with two separators that do not overlap and untrimmed
\* text after the last one has been cleaned.
C8_Witness ==
    /\ cleaned
    /\ NoOverlap
    /\ Cardinality(ScanFrom(1)) = 2
    /\ response # <<>>
    /\ response # Drop(decoded, LastScanned + Len(Separator))

----------------------------------------------------------------------------
(* SpecExport: sequences of export_chatbot_data calls, to the default path *)
(* and to another one, over files that may exist before the first call.    *)

MaxExportPairs == 2

Businesses ==
    {[name |-> "Acme", industry |-> "retail"], [name |-> "Bolt", industry |-> "other"]}

ExportPairLists == UNION {[1..n -> CustomPairPool] : n \in 0..MaxExportPairs}

\* what a file left by an earlier run may hold
OldContent == json_dump(export_data([name |-> "Old", industry |-> "fitness"],
                                    <<SAMPLE_INDUSTRIES.fitness[1]>>))

InitExport ==
    /\ files \in [ExportPaths -> {Absent, OldContent}]
    /\ export_ret = "none"
    /\ latest = [p \in ExportPaths |-> NoExport]
    /\ ParserIdle
    /\ BuilderIdle
    /\ CleanIdle
    /\ SessionIdle

\* a call that returns
ExportOk ==
    \E b \in Businesses, pairs \in ExportPairLists, out \in {"None", "data/other.json"} :
        LET r == export_chatbot_data(files, b, pairs, out)
        IN  /\ files' = r.files
            /\ export_ret' = r.ret
            /\ latest' = [p \in ExportPaths |->
                    IF p = (IF out = "None" THEN "data/chatbot_export.json" ELSE out)
                    THEN [written |-> TRUE, recent |-> TRUE,
                          business_data |-> b, qa_pairs |-> pairs]
                    ELSE [latest[p] EXCEPT !.recent = FALSE]]
            /\ UNCHANGED <<parserVars, builderVars, cleanVars, sessionVars>>

\* a call in which open() raises: nothing is written
ExportOpenFails ==
    /\ export_ret' = "raised"
    /\ UNCHANGED <<files, latest, parserVars, builderVars, cleanVars, sessionVars>>

NextExport == ExportOk \/ ExportOpenFails

SpecExport == InitExport /\ [][NextExport]_vars

\* C9: after any sequence of successful exports, reading a destination back
\* yields exactly the business_info and the qa_pairs (as {question, answer}
\* objects, in input order) of the most recent export to it, whatever the
\* file held before, and the call returned the path it wrote.
C9_ReadBackLatestExport ==
    /\ \A p \in ExportPaths :
          latest[p].written =>
              /\ JsonValid(files[p])
              /\ JsonValue(files[p]).business_info = latest[p].business_data
              /\ Len(JsonValue(files[p]).qa_pairs) = Len(latest[p].qa_pairs)
              /\ \A i \in 1..Len(latest[p].qa_pairs) :
                    /\ JsonValue(files[p]).qa_pairs[i].question = latest[p].qa_pairs[i][1]
                    /\ JsonValue(files[p]).qa_pairs[i].answer = latest[p].qa_pairs[i][2]
    /\ \A p \in ExportPaths : latest[p].recent => export_ret \in {p, "raised"}

\* C9 witness: both paths have been exported to; the default file was the
\* one written last and holds the one pair of that export, the other file
\* the two pairs of its own.
C9_Witness ==
    /\ export_ret = "data/chatbot_export.json"
    /\ latest["data/chatbot_export.json"].written
    /\ latest["data/other.json"].written
    /\ Len(latest["data/chatbot_export.json"].qa_pairs) = 1
    /\ Len(latest["data/other.json"].qa_pairs) = 2
    /\ Len(files["data/chatbot_export.json"]) = 18

----------------------------------------------------------------------------
(* Spec: one ChatbotInterface serving train_chatbot and chat requests, one *)
(* at a time, with every failure the delegates can raise.                  *)

MaxTrainings == 2

Questions == {"", "hours?"}

ModelPaths == {""} \cup CheckpointPaths

Histories == {<<>>, << <<"hi", <<"y", "o">> >> >>}

\* the step of a chat request whose delegate fails, if any
ChatFailures == {"none", "from_pretrained", "to_device", "encode", "generate"}

\* the text the delegate would generate and decode
DecodedText == <<"h", "i", " ", "#", "#", "#", " ", "9", "-", "5", "\n">>

FaqTexts ==
    {Concat(<<QMark, <<" ", "x", " ">>, AMark, <<" ", "y">>, NL, <<"z">>, NL, QMark, AMark>>)}

TrainFailures ==
    {"none", "prepare", "tokenize", "trainer_init", "train_loop", "save_model", "export"}

Init ==
    /\ ParserIdle
    /\ BuilderIdle
    /\ CleanIdle
    /\ ExportIdle
    /\ SessionIdle

Chat ==
    \E question \in Questions, model_path \in ModelPaths,
       history \in Histories, fail \in ChatFailures :
        LET r == chat(model, loaded_model_path, disk, question, model_path, history,
                      fail, DecodedText)
        IN  /\ model' = r.model
            /\ loaded_model_path' = r.loaded
            /\ last_ok_load' = IF r.load_returned THEN model_path ELSE last_ok_load
            /\ failed_before' = (failed_before \/ last.raised_in # "none")
            /\ last' = [NoRequest EXCEPT
                    !.op = "chat", !.question = question, !.model_path = model_path,
                    !.history_in = history, !.fail = fail,
                    !.prev_model = model, !.prev_loaded = loaded_model_path,
                    !.prev_ok_load = last_ok_load,
                    !.ret = r.ret, !.history = r.history,
                    !.load_called = r.load_called, !.load_returned = r.load_returned,
                    !.generate_called = r.generate_called,
                    !.delegate_called = r.delegate_called,
                    !.raised_in = r.raised_in, !.escaped = r.escaped]
            /\ UNCHANGED <<disk, trainings, parserVars, builderVars, cleanVars, exportVars>>

TrainChatbot ==
    \E business_name \in {"Acme"}, ind \in {"retail"},
       faq_text \in FaqTexts, fail_at \in TrainFailures :
        /\ trainings < MaxTrainings
        /\ trainings' = trainings + 1
        /\ LET r == train_chatbot(model, disk, files, business_name, ind, faq_text, fail_at)
           IN  /\ model' = r.model
               /\ disk' = r.disk
               /\ files' = r.files
               /\ failed_before' = (failed_before \/ last.raised_in # "none")
               /\ last' = [NoRequest EXCEPT
                       !.op = "train", !.fail = fail_at,
                       !.prev_model = model, !.prev_loaded = loaded_model_path,
                       !.prev_ok_load = last_ok_load,
                       !.ret = r.ret, !.ret_path = r.ret_path,
                       !.raised_in = r.raised_in, !.escaped = r.escaped]
               /\ loaded_model_path' = recorded_after_train(loaded_model_path, r.ret_path)
               /\ UNCHANGED <<last_ok_load, export_ret, latest,
                              parserVars, builderVars, cleanVars>>

Next == Chat \/ TrainChatbot

Spec == Init /\ [][Next]_vars

\* the last request was a chat request that passed both precondition tests
ChatPassedValidation ==
    last.op = "chat" /\ last.model_path # "" /\ last.question # ""

\* C1: a chat request with a non-empty path and question, whose load (when
\* needed) and whose delegate calls do not fail, returns the generated
\* response and the incoming history with the turn (question, response)
\* appended.
C1_ChatAppendsTurn ==
    (/\ ChatPassedValidation
     /\ last.fail = "none"
     /\ last.load_called => last.load_returned)
    =>
        /\ last.ret = <<"9", "-", "5">>
        /\ last.history = Append(last.history_in, <<last.question, last.ret>>)

\* C2: chat tests the checkpoint path first and the question second; when
\* either is empty it returns the matching non-empty message and the history
\* as passed, and neither load_model nor generate_response is called, so the
\* model and the recorded path are as before.
C2_ValidationOrder ==
    /\ (last.op = "chat" /\ last.model_path = "") =>
          last.ret = <<"Please train the chatbot first!">>
    /\ (last.op = "chat" /\ last.model_path # "" /\ last.question = "") =>
          last.ret = <<"Please ask a question!">>
    /\ (last.op = "chat" /\ ~ChatPassedValidation) =>
          /\ last.ret # <<>>
          /\ last.history = last.history_in
          /\ ~last.load_called
          /\ ~last.generate_called
          /\ ~last.delegate_called
          /\ model = last.prev_model
          /\ loaded_model_path = last.prev_loaded

\* C2 witness: with a checkpoint loaded, a chat request with an empty path,
\* an empty question and a non-empty history has returned.
C2_Witness ==
    /\ last.op = "chat"
    /\ last.model_path = ""
    /\ last.question = ""
    /\ last.history_in # <<>>
    /\ last.prev_loaded = "models/other"

\* the delegate failed in a step the last request reached
DelegateFailed ==
    \/ last.op = "train" /\ last.fail # "none"
    \/ last.op = "chat" /\ last.load_called
          /\ last.fail \in {"from_pretrained", "to_device"}
    \/ last.op = "chat" /\ last.generate_called
          /\ last.fail \in {"encode", "generate"}

C4_LoadWhenPathChanged ==
    /\ loaded_model_path = last_ok_load
    /\ ChatPassedValidation =>
          /\ last.load_called <=>
                (last.prev_ok_load = "unset" \/ last.prev_ok_load # last.model_path)
          /\ (last.load_called /\ ~last.load_returned) =>
                /\ last_ok_load = last.prev_ok_load
                /\ loaded_model_path = last.prev_loaded
          /\ last.load_returned =>
                /\ last_ok_load = last.model_path
                /\ loaded_model_path = last.model_path

\* C4 witness: with models/other loaded, a chat request for models/fine_tuned
\* called load_model, which raised, and models/other is still the recorded
\* path.
C4_Witness ==
    /\ ChatPassedValidation
    /\ last.model_path = "models/fine_tuned"
    /\ last.prev_ok_load = "models/other"
    /\ last.load_called
    /\ ~last.load_returned
    /\ loaded_model_path = "models/other"

\* C11: a training request, completed or failed, leaves the recorded
\* loaded-checkpoint identity as it was (unset stays unset, a path stays
\* that path); the record changes only in a chat request whose load_model
\* call returned.
C11_TrainKeepsLoadedIdentity ==
    /\ last.op = "train" =>
          /\ loaded_model_path = last.prev_loaded
          /\ last_ok_load = last.prev_ok_load
    /\ (last.op # "none" /\ loaded_model_path # last.prev_loaded) =>
          /\ last.op = "chat"
          /\ last.load_returned

\* C11 witness: with models/other recorded as loaded, a training request has
\* completed, changed the model in memory and saved it to models/fine_tuned.
C11_Witness ==
    /\ last.op = "train"
    /\ last.raised_in = "none"
    /\ last.prev_loaded = "models/other"
    /\ loaded_model_path = "models/other"
    /\ model # last.prev_model
    /\ disk["models/fine_tuned"] = model

\* C12: whenever a chat request for path p reaches generate_response, the
\* model in memory is the one the checkpoint at p holds at that moment.
C12_GeneratesFromCheckpointOnDisk ==
    (last.op = "chat" /\ last.generate_called) =>
        model = disk[last.model_path]

====
